---- MODULE Spec2Model ----
(***************************************************************************)
(* Model of the Translator of src/static_analysis/src/translator.cpp: the  *)
(* registry of lifted functions, the block processor that drives the VEX   *)
(* lifter, the terminator classifier and the tail-jump detector.           *)
(*                                                                         *)
(* Addresses are small naturals; 0 is the "no address" value the code      *)
(* itself uses (target = 0, fall_through = 0, nullptr).  No address of the *)
(* model comes near 2^64, so the uint64 sums of the code never wrap here.  *)
(***************************************************************************)
EXTENDS Integers, Sequences, FiniteSets, TLC

\* ------------------------------------------------------------------ bounds

\* Catalog and lookup addresses are 1..MaxAddr.
MaxAddr == 3
\* Number of caller threads sharing the Translator.
NumThreads == 2
\* Largest instruction_count of a catalog block of the single-block dumps.
MaxInstr == 2

Addr == 1..MaxAddr
Threads == 1..NumThreads
\* One past the last catalog address: the block_end of the last block.
EndAddr == MaxAddr + 1
\* The deepest recursion of process_block the call stack holds: one frame for
\* every address a block can start at.  A call made at that depth does not
\* return.
MaxDepth == MaxAddr
\* Values an Exit destination or a next constant takes in the IR profile.
IRValues == 0..(MaxAddr + 2)

\* ------------------------------------------------------------- finite maps

EmptyMap == [k \in {} |-> 0]

Put(m, k, v) == [x \in DOMAIN m \cup {k} |-> IF x = k THEN v ELSE m[x]]

Erase(m, k) == [x \in DOMAIN m \ {k} |-> m[x]]

SetMax(S) == CHOOSE x \in S : \A y \in S : y <= x

SetMin(S) == CHOOSE x \in S : \A y \in S : x <= y

RECURSIVE Ascending(_)
Ascending(S) == IF S = {} THEN << >>
                ELSE <<SetMin(S)>> \o Ascending(S \ {SetMin(S)})

\* ------------------------------------------------------------------ VEX IR

\* The three statement kinds the Translator looks at or steps over.
IMark(addr, len) == [tag |-> "IMark", addr |-> addr, len |-> len, dst |-> 0]
Exit(dst) == [tag |-> "Exit", addr |-> 0, len |-> 0, dst |-> dst]
WrTmp == [tag |-> "WrTmp", addr |-> 0, len |-> 0, dst |-> 0]

\* The next expression: a constant, or anything else (a temporary).
Const(c) == [tag |-> "Const", con |-> c]
RdTmp == [tag |-> "RdTmp", con |-> 0]

IRSB(stmts, next, jumpkind) ==
    [stmts |-> stmts, next |-> next, jumpkind |-> jumpkind]

\* m consecutive one-byte instructions starting at addr.
Marks(addr, m) == [k \in 1..m |-> IMark(addr + k - 1, 1)]

\* Indices of the InstructionMarks of a statement sequence.
MarkIdx(stmts) == {i \in 1..Len(stmts) : stmts[i].tag = "IMark"}

\* ------------------------------------------------- terminator classifier

Terminator(type, target, fall_through, is_tail) ==
    [type |-> type, target |-> target, fall_through |-> fall_through,
     is_tail |-> is_tail]

\* First loop of get_terminator: index of the last InstructionMark, 0 if none.
last_mark(stmts) == IF MarkIdx(stmts) = {} THEN 0 ELSE SetMax(MarkIdx(stmts))

\* A mutant of exit_target: the intra-block correction left out.
exit_target_keep(dst, jmp_call_target, fall_through, block_start, last_addr) ==
    [jcc_target |-> IF dst = jmp_call_target /\ fall_through = dst THEN 0 ELSE dst,
     is_conditional |-> TRUE]

\* One Exit statement met by the reverse scan: the two corrections.
exit_target(dst, jmp_call_target, fall_through, block_start, last_addr) ==
    LET j1 == IF dst = jmp_call_target /\ fall_through = dst THEN 0 ELSE dst
    IN IF j1 > block_start /\ j1 <= last_addr
       THEN [jcc_target |-> 0, is_conditional |-> FALSE]
       ELSE [jcc_target |-> j1, is_conditional |-> TRUE]

\* The reverse scan for Exit statements: runs while jcc_target is 0 and stops
\* at the first InstructionMark met, i.e. the last one of the block.
RECURSIVE scan_exits(_, _, _, _, _, _, _)
scan_exits(stmts, i, st, jmp_call_target, fall_through, block_start, last_addr) ==
    IF st.jcc_target # 0 \/ i < 1 THEN st
    ELSE IF stmts[i].tag = "IMark" THEN st
    ELSE IF stmts[i].tag = "Exit"
         THEN scan_exits(stmts, i - 1,
                         exit_target(stmts[i].dst, jmp_call_target,
                                     fall_through, block_start, last_addr),
                         jmp_call_target, fall_through, block_start, last_addr)
         ELSE scan_exits(stmts, i - 1, st, jmp_call_target, fall_through,
                         block_start, last_addr)

\* A mutant of fuse_jcc: the fusion step left out.
fuse_jcc_none(jcc_target, is_conditional, is_jmp_call, fall_through, jmp_call_target) ==
    jcc_target

\* A conditional whose target is the fall-through takes the jump/call target.
fuse_jcc(jcc_target, is_conditional, is_jmp_call, fall_through, jmp_call_target) ==
    IF is_conditional /\ is_jmp_call /\ jcc_target = fall_through
    THEN jmp_call_target
    ELSE jcc_target

\* The dispatch on the jump-kind; fall_through is last_addr + len on entry.
dispatch_jumpkind(jumpkind, jcc_target, jmp_call_target, fall_through, last_addr, is_tail) ==
    CASE jumpkind = "NoDecode" ->
            Terminator("Fallthrough", 0, jmp_call_target, is_tail)
      [] jumpkind = "Ret" ->
            Terminator("Return", 0, 0, is_tail)
      [] jumpkind = "Call" ->
            IF jmp_call_target # 0
            THEN Terminator("Call", jmp_call_target, fall_through, is_tail)
            ELSE Terminator("CallUnresolved", 0, fall_through, is_tail)
      [] jumpkind = "Boring" ->
            IF jcc_target # 0
            THEN Terminator("Jcc", jcc_target, fall_through, is_tail)
            ELSE IF jmp_call_target = last_addr
            THEN Terminator("Fallthrough", 0, fall_through, is_tail)
            ELSE IF jmp_call_target = fall_through
            THEN Terminator("Jump", jmp_call_target, 0, is_tail)
            ELSE IF jmp_call_target # 0
            THEN Terminator("Jump", jmp_call_target, 0, is_tail)
            ELSE Terminator("Unresolved", 0, 0, is_tail)
      [] OTHER ->
            Terminator("Unresolved", 0, 0, is_tail)

\* get_terminator(block, block_start).  The code never writes is_tail: the
\* value the caller finds there is whatever the object held, is_tail here.
get_terminator(block, block_start, is_tail) ==
    LET stmts == block.stmts
        lm == last_mark(stmts)
        last_addr == IF lm = 0 THEN 0 ELSE stmts[lm].addr
        fall_through == IF lm = 0 THEN 0 ELSE stmts[lm].addr + stmts[lm].len
        jmp_call_target == IF block.next.tag = "Const" THEN block.next.con ELSE 0
        is_jmp_call == fall_through # jmp_call_target
        st == scan_exits(stmts, Len(stmts),
                         [jcc_target |-> 0, is_conditional |-> FALSE],
                         jmp_call_target, fall_through, block_start, last_addr)
        jcc_target == fuse_jcc(st.jcc_target, st.is_conditional, is_jmp_call,
                               fall_through, jmp_call_target)
    IN dispatch_jumpkind(block.jumpkind, jcc_target, jmp_call_target,
                         fall_through, last_addr, is_tail)

\* --------------------------------------------------------- block processor

BlockDescriptor(block_start, block_end, instruction_count) ==
    [block_start |-> block_start, block_end |-> block_end,
     instruction_count |-> instruction_count]

\* The call of process_block that finds no room on the call stack.
StackOverflow == BlockDescriptor(0, 0, 0)

\* head_instructions: the number of InstructionMarks of the copied block.
head_instructions(vex_block) == Cardinality(MarkIdx(vex_block.stmts))

\* A mutant of split_descriptor: the rest keeps the whole instruction count.
split_descriptor_whole(block, real_end, head) ==
    BlockDescriptor(real_end, block.block_end, block.instruction_count)

\* The descriptor of the rest of an under-translated block.
split_descriptor(block, real_end, head) ==
    BlockDescriptor(real_end, block.block_end, block.instruction_count - head)

\* A mutant of over_translation: cuts at the instruction_count-th mark.
over_translation_early(vex_block, instruction_count) ==
    LET over == {i \in MarkIdx(vex_block.stmts) :
                    Cardinality({j \in MarkIdx(vex_block.stmts) : j <= i})
                        = instruction_count}
    IN IF over = {} THEN vex_block
       ELSE LET i == SetMin(over)
            IN IRSB(SubSeq(vex_block.stmts, 1, i - 1),
                    Const(vex_block.stmts[i].addr), "NoDecode")

\* The truncation loop: at the (instruction_count + 1)-th InstructionMark the
\* block is cut before that mark, becomes NoDecode and gets the mark's address
\* as its next constant (overwritten, or freshly allocated).
over_translation(vex_block, instruction_count) ==
    LET over == {i \in MarkIdx(vex_block.stmts) :
                    Cardinality({j \in MarkIdx(vex_block.stmts) : j <= i})
                        = instruction_count + 1}
    IN IF over = {} THEN vex_block
       ELSE LET i == SetMin(over)
            IN IRSB(SubSeq(vex_block.stmts, 1, i - 1),
                    Const(vex_block.stmts[i].addr), "NoDecode")

\* A mutant of no_return_overlay: only calls are promoted.
no_return_overlay_calls(terminator, non_returning) ==
    IF terminator.type = "Call" /\ terminator.target \in non_returning
    THEN [terminator EXCEPT !.type = "NoReturn"]
    ELSE terminator

\* The switch of finalize_block: a Call or Jump into the non-returning set
\* becomes NoReturn.
no_return_overlay(terminator, non_returning) ==
    IF terminator.type \in {"Call", "Jump"} /\ terminator.target \in non_returning
    THEN [terminator EXCEPT !.type = "NoReturn"]
    ELSE terminator

\* ------------------------------------------------------- Function objects

Block(address, irsb, terminator) ==
    [address |-> address, irsb |-> irsb, terminator |-> terminator]

Function(address) ==
    [entry |-> address, blocks |-> EmptyMap, finalized |-> FALSE,
     xrefs |-> {}, vfunc_xrefs |-> {}]

Function_add_block(function, address, irsb, terminator) ==
    [function EXCEPT !.blocks = Put(@, address, Block(address, irsb, terminator))]

Function_finalize(function) == [function EXCEPT !.finalized = TRUE]

Function_contains_address(function, addr) ==
    \E a \in DOMAIN function.blocks :
        \E i \in MarkIdx(function.blocks[a].irsb.stmts) :
            LET mark == function.blocks[a].irsb.stmts[i]
            IN mark.addr <= addr /\ addr < mark.addr + mark.len

\* A mutant of is_tail_jump: the jumping block itself is not looked at.
is_tail_jump_other(function, address) ==
    LET terminator == function.blocks[address].terminator
    IN /\ terminator.type = "Jump"
       /\ ~ \E a \in DOMAIN function.blocks \ {address} :
               function.blocks[a].address = terminator.target

\* The body of the loop of detect_tail_jumps for one block: false, unless the
\* terminator is a Jump whose target is the address of no block of function.
is_tail_jump(function, address) ==
    LET terminator == function.blocks[address].terminator
    IN /\ terminator.type = "Jump"
       /\ ~ \E a \in DOMAIN function.blocks :
               function.blocks[a].address = terminator.target

detect_tail_jumps(function) ==
    [function EXCEPT !.blocks =
        [a \in DOMAIN @ |->
            [@[a] EXCEPT !.terminator.is_tail = is_tail_jump(function, a)]]]

\* ------------------------------------------------------------------ state

VARIABLES
    dump_file,      \* _dump_file: [functions, non_returning], fixed at construction
    vex,            \* _vex: which lifter the Translator was constructed with
    functions,      \* _functions: entry address -> Function
    blocks,         \* _blocks: block address -> owned IRSB
    seen_blocks,    \* _seen_blocks
    is_finalized,   \* _is_finalized
    mutex,          \* _mutex: 0 when free, else the thread holding it
    pc,             \* per thread: "ctor", "idle" or "translate"
    frame,          \* per thread: the locals of its translate_function call
    pending,        \* parse_known_functions: the catalog entries not yet visited
    translated,     \* block address -> what _vex.translate was asked and returned,
                    \* and _seen_blocks as the call found it
    ret             \* the last public operation that returned, and its outcome

vars == <<dump_file, vex, functions, blocks, seen_blocks, is_finalized, mutex,
          pc, frame, pending, translated, ret>>

\* The thread that runs the constructor.
CtorThread == SetMin(Threads)

NoFrame == [op |-> "none", address |-> 0, todo |-> << >>, stack |-> << >>,
            call |-> << >>, result |-> TRUE]

Result(op, address, status, function) ==
    [op |-> op, address |-> address, status |-> status, function |-> function]

NoResult == Result("none", 0, "none", 0)

\* ------------------------------------------------------------- dump files

DumpFile(fs, non_returning) == [functions |-> fs, non_returning |-> non_returning]

\* Catalogs whose functions overlap (the entry of one lies inside a block of
\* the other), share a block, or hold an empty descriptor.
DumpFiles ==
    { DumpFile(1 :> <<BlockDescriptor(1, 3, 2)>>
               @@ 2 :> <<BlockDescriptor(2, 3, 1)>>, {MaxAddr}),
      DumpFile(1 :> <<BlockDescriptor(1, 1, 1), BlockDescriptor(1, 2, 1),
                      BlockDescriptor(2, EndAddr, 1)>>
               @@ 2 :> <<BlockDescriptor(2, EndAddr, 1)>>, {}),
      DumpFile(1 :> <<BlockDescriptor(1, 3, 2), BlockDescriptor(3, EndAddr, 1)>>
               @@ 3 :> <<BlockDescriptor(3, EndAddr, 1), BlockDescriptor(1, 3, 2)>>,
               {}) }

\* Catalogs of one function of two blocks, the second one starting inside the
\* first.
WildDumpFiles ==
    { DumpFile(1 :> <<BlockDescriptor(1, EndAddr, n), BlockDescriptor(2, EndAddr, 1)>>,
               {}) : n \in 1..MaxInstr }

\* Catalogs of one function of one block, for the classifier and truncation.
IRDumpFiles ==
    { DumpFile(1 :> <<BlockDescriptor(1, EndAddr, n)>>, {MaxAddr}) : n \in 1..MaxInstr }

\* --------------------------------------------------------------- the lifter

Response(irsb, real_end) == [irsb |-> irsb, real_end |-> real_end]

\* A lifter that stops one instruction early, at a call, or returns the number
\* of instructions asked, ending in a return.
VexPlain(addr, count) ==
    { Response(IRSB(Marks(addr, count - 1), Const(MaxAddr), "Call"),
               addr + count - 1),
      Response(IRSB(Marks(addr, count), RdTmp, "Ret"), addr + count) }

\* A lifter that returns well-formed blocks of one-byte instructions: one
\* instruction too few (the block was split at a call), the number asked with
\* a jump, a call or a return at its end, or one instruction too many.
VexCfg(addr, count) ==
    { Response(IRSB(Marks(addr, count - 1), Const(MaxAddr), "Call"),
               addr + count - 1),
      Response(IRSB(Marks(addr, count + 1), Const(addr + count + 1), "Boring"),
               addr + count + 1) }
    \cup { Response(IRSB(Marks(addr, count), e.next, e.jumpkind), addr + count) :
            e \in {[next |-> Const(addr), jumpkind |-> "Boring"],
                   [next |-> Const(MaxAddr), jumpkind |-> "Boring"],
                   [next |-> Const(MaxAddr), jumpkind |-> "Call"],
                   [next |-> RdTmp, jumpkind |-> "Ret"]} }

\* Exit statements after the last instruction: at most two.
ExitTails ==
    {<< >>} \cup {<<Exit(d)>> : d \in IRValues}
            \cup {<<Exit(d), Exit(e)>> : d \in IRValues, e \in IRValues}

\* m instructions, each followed by one other statement; the last one is len
\* bytes long.
MarkedStmts(addr, m, len) ==
    [k \in 1..(2 * m) |->
        IF k % 2 = 0 THEN WrTmp
        ELSE IMark(addr + (k - 1) \div 2, IF k = 2 * m - 1 THEN len ELSE 1)]

\* A lifter that may return any block shape the classifier distinguishes.
VexAny(addr, count) ==
    { Response(IRSB(MarkedStmts(addr, l.m, l.len) \o tail, next, jumpkind),
               IF l.m = 0 THEN addr ELSE addr + l.m - 1 + l.len) :
        l \in {[m |-> 0, len |-> 1]}
              \cup {[m |-> m, len |-> len] : m \in 1..(count + 1), len \in 1..2},
        tail \in ExitTails,
        next \in {Const(c) : c \in IRValues} \cup {RdTmp},
        jumpkind \in {"Boring", "Call", "Ret", "NoDecode", "Sys"} }

\* A lifter that translates all instructions asked or stops one short, and
\* reports any real_end: the address it was asked to start at, an earlier
\* one, a later one.
VexWild(addr, count) ==
    { Response(IRSB(Marks(addr, m), RdTmp, "Ret"), real_end) :
        m \in {count - 1, count}, real_end \in 1..EndAddr }

\* _vex.translate(memory, addr, count, &real_end): the possible answers.
VexTranslate(addr, count) ==
    IF vex = "plain" THEN VexPlain(addr, count)
    ELSE IF vex = "cfg" THEN VexCfg(addr, count)
    ELSE IF vex = "wild" THEN VexWild(addr, count)
    ELSE IF addr \in DOMAIN dump_file.functions THEN VexAny(addr, count)
    ELSE {Response(IRSB(Marks(addr, 1), RdTmp, "Ret"), addr + 1)}

\* ------------------------------------------------------------ translation

constructed == pc[CtorThread] # "ctor" /\ frame[CtorThread].op # "ctor"

\* A mutant of lookup_result: a null handle is handed back as it is.
lookup_result_null(op, address, handle) ==
    IF handle # 0 THEN Result(op, address, "ok", handle)
    ELSE Result(op, address, "null", 0)

\* What a public lookup hands back for the handle maybe_translate_function
\* returned (0 is nullptr): get_function throws, maybe_get_function does not.
lookup_result(op, address, handle) ==
    IF handle # 0 THEN Result(op, address, "ok", handle)
    ELSE Result(op, address,
                IF op = "get_function" THEN "NotFound" ELSE "null", 0)

\* translate_function returns `handle` to the operation that called it.
leave(t, handle) ==
    IF frame[t].op = "ctor"
    THEN /\ pc' = [pc EXCEPT ![t] = "ctor"]
         /\ frame' = [frame EXCEPT ![t] = NoFrame]
         /\ UNCHANGED <<mutex, ret>>
    ELSE /\ pc' = [pc EXCEPT ![t] = "idle"]
         /\ frame' = [frame EXCEPT ![t] = NoFrame]
         /\ mutex' = 0
         /\ ret' = lookup_result(frame[t].op, frame[t].address, handle)

\* The first lines of translate_function: a fresh Function in the registry.
translate_function(t, address, op) ==
    /\ functions' = Put(functions, address, Function(address))
    /\ frame' = [frame EXCEPT ![t] =
                    [op |-> op, address |-> address,
                     todo |-> dump_file.functions[address], stack |-> << >>,
                     call |-> << >>, result |-> TRUE]]
    /\ pc' = [pc EXCEPT ![t] = "translate"]

\* A mutant of translated_function: the Function is not marked finalized.
translated_function_open(function) == detect_tail_jumps(function)

\* The last lines of translate_function: tail jumps, then finalize.
translated_function(function) == Function_finalize(detect_tail_jumps(function))

\* The loop of translate_function between two catalog blocks, and its end:
\* a failed block erases the Function, the last block finalizes it.
translate_function_loop(t) ==
    /\ pc[t] = "translate"
    /\ frame[t].call = << >>
    /\ frame[t].stack = << >>
    /\ IF ~ frame[t].result
       THEN /\ functions' = Erase(functions, frame[t].address)
            /\ leave(t, 0)
       ELSE IF frame[t].todo # << >>
       THEN /\ frame' = [frame EXCEPT ![t].call = <<Head(frame[t].todo)>>,
                                      ![t].todo = Tail(frame[t].todo)]
            /\ UNCHANGED <<functions, pc, mutex, ret>>
       ELSE /\ functions' = [functions EXCEPT ![frame[t].address] =
                                translated_function(@)]
            /\ leave(t, frame[t].address)
    /\ UNCHANGED <<dump_file, vex, blocks, seen_blocks, is_finalized, pending,
                   translated>>

\* A mutant of empty: no descriptor is taken for empty.
empty_never(block) == FALSE

\* The first test of process_block: the descriptor spans no address.
empty(block) == block.block_start = block.block_end

\* A mutant of seen: the memo is never consulted.
seen_never(block_start) == FALSE

\* The lookup of block_start in _seen_blocks.
seen(block_start) == block_start \in seen_blocks

\* A mutant of seen_insert: the address is not recorded before the recursion.
seen_insert_late(block_start) == seen_blocks

\* _seen_blocks.insert(block_start), right after the lifter returned.
seen_insert(block_start) == seen_blocks \cup {block_start}

\* A mutant of finalize_block: the owned IR is not recorded in _blocks.
finalize_block_unrecorded(function, block, block_pointer) ==
    \E is_tail \in BOOLEAN :
        LET terminator ==
                no_return_overlay(
                    get_terminator(block_pointer, block.block_start, is_tail),
                    dump_file.non_returning)
        IN /\ functions' = [functions EXCEPT ![function] =
                               Function_add_block(@, block.block_start,
                                                  block_pointer, terminator)]
           /\ blocks' = blocks

\* finalize_block: classify, overlay, attach to the Function, record the IR.
finalize_block(function, block, block_pointer) ==
    \E is_tail \in BOOLEAN :
        LET terminator ==
                no_return_overlay(
                    get_terminator(block_pointer, block.block_start, is_tail),
                    dump_file.non_returning)
        IN /\ functions' = [functions EXCEPT ![function] =
                               Function_add_block(@, block.block_start,
                                                  block_pointer, terminator)]
           /\ blocks' = Put(blocks, block.block_start, block_pointer)

\* process_block up to its recursive call or its return.
process_block(t) ==
    /\ pc[t] = "translate"
    /\ frame[t].call # << >>
    /\ frame[t].call # <<StackOverflow>>
    /\ LET block == frame[t].call[1]
       IN IF empty(block) \/ seen(block.block_start)
          THEN /\ frame' = [frame EXCEPT ![t].call = << >>, ![t].result = TRUE]
               /\ UNCHANGED <<functions, blocks, seen_blocks, translated>>
          ELSE \E r \in VexTranslate(block.block_start, block.instruction_count) :
                /\ seen_blocks' = seen_insert(block.block_start)
                /\ translated' = Put(translated, block.block_start,
                                     [instruction_count |-> block.instruction_count,
                                      block_end |-> block.block_end,
                                      seen_blocks |-> seen_blocks,
                                      irsb |-> r.irsb, real_end |-> r.real_end])
                /\ IF head_instructions(r.irsb) < block.instruction_count
                   THEN /\ frame' = [frame EXCEPT
                               ![t].stack = Append(@, [block |-> block,
                                                       block_pointer |-> r.irsb]),
                               ![t].call =
                                   IF Len(frame[t].stack) < MaxDepth
                                   THEN <<split_descriptor(block, r.real_end,
                                               head_instructions(r.irsb))>>
                                   ELSE <<StackOverflow>>]
                        /\ UNCHANGED <<functions, blocks>>
                   ELSE /\ finalize_block(frame[t].address, block,
                               over_translation(r.irsb, block.instruction_count))
                        /\ frame' = [frame EXCEPT ![t].call = << >>,
                                                  ![t].result = TRUE]
    /\ UNCHANGED <<dump_file, vex, is_finalized, mutex, pc, pending, ret>>

\* process_block after its recursive call returned: result &= the call's
\* result, then the head block is finalized as lifted.
process_block_split(t) ==
    /\ pc[t] = "translate"
    /\ frame[t].call = << >>
    /\ frame[t].stack # << >>
    /\ LET top == frame[t].stack[Len(frame[t].stack)]
       IN /\ finalize_block(frame[t].address, top.block, top.block_pointer)
          /\ frame' = [frame EXCEPT
                          ![t].stack = SubSeq(@, 1, Len(@) - 1),
                          ![t].result = (TRUE /\ frame[t].result)]
    /\ UNCHANGED <<dump_file, vex, seen_blocks, is_finalized, mutex, pc, pending,
                   translated, ret>>

\* ------------------------------------------------------------ construction

\* One iteration of parse_known_functions (the constructor holds no lock).
parse_known_functions(t) ==
    /\ pc[t] = "ctor"
    /\ pending # << >>
    /\ translate_function(t, Head(pending), "ctor")
    /\ pending' = Tail(pending)
    /\ UNCHANGED <<dump_file, vex, blocks, seen_blocks, is_finalized, mutex,
                   translated, ret>>

\* The end of the constructor.
Translator(t) ==
    /\ pc[t] = "ctor"
    /\ pending = << >>
    /\ is_finalized' = FALSE
    /\ pc' = [pc EXCEPT ![t] = "idle"]
    /\ UNCHANGED <<dump_file, vex, functions, blocks, seen_blocks, mutex, frame,
                   pending, translated, ret>>

\* -------------------------------------------------------- public surface

\* A mutant of lock_guard: the operation does not wait for the lock.
lock_guard_none(t) == TRUE

\* lock_guard<mutex> _(_mutex): the thread gets past it when the lock is free.
lock_guard(t) == mutex = 0

\* A public operation that takes the lock and returns within one step.
returns(t, result) ==
    /\ ret' = result
    /\ UNCHANGED <<mutex, pc, frame>>

\* A mutant of registry_find: the registry is never consulted.
registry_find_never(address) == FALSE

\* _functions.find(address) != _functions.cend()
registry_find(address) == address \in DOMAIN functions

\* maybe_translate_function, called with the lock held by `op`.
maybe_translate_function(t, address, op) ==
    IF registry_find(address)
    THEN /\ returns(t, lookup_result(op, address, address))
         /\ UNCHANGED functions
    ELSE IF address \notin DOMAIN dump_file.functions
    THEN /\ returns(t, lookup_result(op, address, 0))
         /\ UNCHANGED functions
    ELSE /\ translate_function(t, address, op)
         /\ mutex' = t
         /\ UNCHANGED ret

get_function(t, address) ==
    /\ constructed /\ pc[t] = "idle" /\ lock_guard(t)
    /\ maybe_translate_function(t, address, "get_function")
    /\ UNCHANGED <<dump_file, vex, blocks, seen_blocks, is_finalized, pending,
                   translated>>

maybe_get_function(t, address) ==
    /\ constructed /\ pc[t] = "idle" /\ lock_guard(t)
    /\ maybe_translate_function(t, address, "maybe_get_function")
    /\ UNCHANGED <<dump_file, vex, blocks, seen_blocks, is_finalized, pending,
                   translated>>

cget_function(t, address) ==
    /\ constructed /\ pc[t] = "idle" /\ lock_guard(t)
    /\ returns(t, IF address \in DOMAIN functions
                  THEN Result("cget_function", address, "ok", address)
                  ELSE Result("cget_function", address, "NotFound", 0))
    /\ UNCHANGED <<dump_file, vex, functions, blocks, seen_blocks, is_finalized,
                   pending, translated>>

\* A mutant of get_functions_mutable_status: the flag is not looked at.
get_functions_mutable_always(finalized) == "ok"

\* The test of get_functions_mutable.
get_functions_mutable_status(finalized) ==
    IF finalized THEN "Finalized" ELSE "ok"

get_functions_mutable(t) ==
    /\ constructed /\ pc[t] = "idle" /\ lock_guard(t)
    /\ returns(t, Result("get_functions_mutable", 0,
                         get_functions_mutable_status(is_finalized), 0))
    /\ UNCHANGED <<dump_file, vex, functions, blocks, seen_blocks, is_finalized,
                   pending, translated>>

\* finalize takes no lock.
finalize(t) ==
    /\ constructed /\ pc[t] = "idle"
    /\ is_finalized' = TRUE
    /\ ret' = Result("finalize", 0, "ok", 0)
    /\ UNCHANGED <<dump_file, vex, functions, blocks, seen_blocks, mutex, pc,
                   frame, pending, translated>>

\* What get_containing_function may return when it walks _functions while
\* another thread is changing it: the walk is a data race, any Function of
\* the registry or none may come out of it.
racing_walk(addr) ==
    {Result("get_containing_function", addr, "NotFound", 0)}
        \cup {Result("get_containing_function", addr, "ok", a) : a \in DOMAIN functions}

\* get_containing_function takes no lock: the first Function, in ascending
\* order of entry address, that contains addr.
get_containing_function(t, addr) ==
    /\ constructed /\ pc[t] = "idle"
    /\ LET hits == {a \in DOMAIN functions :
                       Function_contains_address(functions[a], addr)}
       IN IF mutex = 0
          THEN ret' = IF hits = {}
                      THEN Result("get_containing_function", addr, "NotFound", 0)
                      ELSE Result("get_containing_function", addr, "ok", SetMin(hits))
          ELSE ret' \in racing_walk(addr)
    /\ UNCHANGED <<dump_file, vex, functions, blocks, seen_blocks, is_finalized,
                   mutex, pc, frame, pending, translated>>

add_function_xref(t, fct_addr, xref_addr) ==
    /\ constructed /\ pc[t] = "idle" /\ lock_guard(t)
    /\ IF fct_addr \in DOMAIN functions
       THEN /\ functions' = [functions EXCEPT ![fct_addr].xrefs = @ \cup {xref_addr}]
            /\ returns(t, Result("add_function_xref", fct_addr, "ok", fct_addr))
       ELSE /\ returns(t, Result("add_function_xref", fct_addr, "NotFound", 0))
            /\ UNCHANGED functions
    /\ UNCHANGED <<dump_file, vex, blocks, seen_blocks, is_finalized, pending,
                   translated>>

add_function_vfunc_xref(t, fct_addr, xref_addr) ==
    /\ constructed /\ pc[t] = "idle" /\ lock_guard(t)
    /\ IF fct_addr \in DOMAIN functions
       THEN /\ functions' = [functions EXCEPT
                                ![fct_addr].vfunc_xrefs = @ \cup {xref_addr}]
            /\ returns(t, Result("add_function_vfunc_xref", fct_addr, "ok", fct_addr))
       ELSE /\ returns(t, Result("add_function_vfunc_xref", fct_addr, "NotFound", 0))
            /\ UNCHANGED functions
    /\ UNCHANGED <<dump_file, vex, blocks, seen_blocks, is_finalized, pending,
                   translated>>

\* ---------------------------------------------------------- specifications

\* The state when the constructor has initialised its members: nothing is
\* translated, _is_finalized is not yet written, and parse_known_functions
\* has the whole catalog before it (parse_on_demand false) or nothing.
InitWith(dumps, lifter) ==
    /\ dump_file \in dumps
    /\ vex = lifter
    /\ functions = EmptyMap
    /\ blocks = EmptyMap
    /\ seen_blocks = {}
    /\ is_finalized \in BOOLEAN
    /\ mutex = 0
    /\ pc = [t \in Threads |-> IF t = CtorThread THEN "ctor" ELSE "idle"]
    /\ frame = [t \in Threads |-> NoFrame]
    /\ pending \in {<< >>, Ascending(DOMAIN dump_file.functions)}
    /\ translated = EmptyMap
    /\ ret = NoResult

\* The whole public surface, over a plain lifter.
Init == InitWith(DumpFiles, "plain")

Translate ==
    \E t \in Threads :
        \/ parse_known_functions(t)
        \/ Translator(t)
        \/ translate_function_loop(t)
        \/ process_block(t)
        \/ process_block_split(t)

Lookup ==
    \E t \in Threads, address \in Addr :
        \/ get_function(t, address)
        \/ maybe_get_function(t, address)
        \/ cget_function(t, address)

Next ==
    \/ Translate
    \/ Lookup
    \/ \E t \in Threads, address \in Addr :
        \/ get_containing_function(t, address)
        \/ add_function_xref(t, address, MaxAddr)
        \/ add_function_vfunc_xref(t, address, MaxAddr)
    \/ \E t \in Threads :
        \/ get_functions_mutable(t)
        \/ finalize(t)

Spec == Init /\ [][Next]_vars

\* Construction and the translating lookups, over a lifter that under- and
\* over-translates and ends blocks in jumps, calls and returns.
InitCfg == InitWith(DumpFiles, "cfg")

NextCfg == Translate \/ Lookup

SpecCfg == InitCfg /\ [][NextCfg]_vars

\* The eager constructor alone, on a one-block catalog and any block shape.
InitIR == InitWith(IRDumpFiles, "any") /\ pending # << >>

SpecIR == InitIR /\ [][Translate]_vars

\* The eager constructor over a lifter that reports any real_end; the thread
\* that runs it keeps running.
InitWild == InitWith(WildDumpFiles, "wild") /\ pending # << >>

SpecWild == InitWild /\ [][Translate]_vars /\ WF_vars(Translate)

\* ------------------------------------------------------------------ claims

\* Every Block attached to a Function, as <<function, block address>>.
AttachedBlocks ==
    UNION {{<<f, a>> : a \in DOMAIN functions[f].blocks} : f \in DOMAIN functions}

\* The Functions of the registry that translate_function has completed.
Translated == {f \in DOMAIN functions : functions[f].finalized}

\* C1: for every address, at most one Block with that address exists across
\* all Functions of the registry.
C1_OneBlockPerAddress ==
    \A p \in AttachedBlocks, q \in AttachedBlocks :
        functions[p[1]].blocks[p[2]].address = functions[q[1]].blocks[q[2]].address
            => p = q

\* C1 witness: two translated Functions, the catalog of one naming a block that
\* is attached to the other.
C1_Witness ==
    \E f \in Translated, g \in Translated :
        /\ f # g
        /\ \E i \in 1..Len(dump_file.functions[g]) :
            LET d == dump_file.functions[g][i]
            IN d.block_start # d.block_end
               /\ d.block_start \in DOMAIN functions[f].blocks

\* C2 (as claimed): every translated Function holds a Block at its entry
\* address.
C2_EntryBlock ==
    \A f \in Translated :
        /\ f \in DOMAIN functions[f].blocks
        /\ functions[f].blocks[f].address = functions[f].entry

\* No Translator operation is in progress.
Quiescent == constructed /\ mutex = 0

\* C3: when no operation is in progress, every Function of the registry is
\* finalized, all its catalog blocks have been processed, and tail-jump
\* detection has run on all its blocks.
C3_NoPartialFunction ==
    Quiescent =>
        \A f \in DOMAIN functions :
            /\ functions[f].finalized
            /\ \A i \in 1..Len(dump_file.functions[f]) :
                LET d == dump_file.functions[f][i]
                IN d.block_start = d.block_end \/ d.block_start \in seen_blocks
            /\ \A a \in DOMAIN functions[f].blocks :
                functions[f].blocks[a].terminator.is_tail
                    = is_tail_jump(functions[f], a)

\* C3 witness: at rest, a Function of two blocks is in the registry.
C3_Witness ==
    /\ Quiescent
    /\ \E f \in DOMAIN functions : Cardinality(DOMAIN functions[f].blocks) >= 2

\* C4: in a finalized Function a terminator is_tail exactly when it is a Jump
\* whose target is the address of no Block of that Function.
C4_TailIffJumpOut ==
    \A f \in Translated : \A a \in DOMAIN functions[f].blocks :
        LET terminator == functions[f].blocks[a].terminator
        IN terminator.is_tail <=>
            /\ terminator.type = "Jump"
            /\ terminator.target \notin
                 {functions[f].blocks[b].address : b \in DOMAIN functions[f].blocks}

\* C4 witness: a finalized Function with a Jump to one of its own blocks.
C4_Witness ==
    \E f \in Translated : \E a \in DOMAIN functions[f].blocks :
        /\ functions[f].blocks[a].terminator.type = "Jump"
        /\ functions[f].blocks[a].terminator.target \in DOMAIN functions[f].blocks
        /\ ~ functions[f].blocks[a].terminator.is_tail

\* C4 witness of the other side: a tail jump.
C4_WitnessTail ==
    \E f \in Translated : \E a \in DOMAIN functions[f].blocks :
        functions[f].blocks[a].terminator.is_tail

\* C5: a stored terminator is NoReturn exactly when the classifier returned a
\* Call or Jump whose target is in the non-returning set; every other stored
\* terminator has the classifier's type.
C5_NoReturnIffPromoted ==
    \A p \in AttachedBlocks :
        LET b == functions[p[1]].blocks[p[2]]
            classified == get_terminator(b.irsb, b.address, FALSE)
            promoted == /\ classified.type \in {"Call", "Jump"}
                        /\ classified.target \in dump_file.non_returning
        IN /\ (b.terminator.type = "NoReturn") <=> promoted
           /\ ~ promoted => b.terminator.type = classified.type

\* C5 witness: a Jump into the non-returning set is stored as NoReturn.
C5_Witness ==
    \E p \in AttachedBlocks :
        LET b == functions[p[1]].blocks[p[2]]
        IN /\ b.terminator.type = "NoReturn"
           /\ get_terminator(b.irsb, b.address, FALSE).type = "Jump"

\* C6: finalize sets is_finalized, nothing after construction resets it, a
\* get_functions_mutable that finds it set fails with Finalized, and a second
\* finalize changes nothing but the record of the call.
C6_FinalizedForGood ==
    [][ /\ (constructed /\ is_finalized) => is_finalized'
        /\ \A t \in Threads :
            /\ finalize(t) => is_finalized'
            /\ (finalize(t) /\ is_finalized) =>
                 UNCHANGED <<dump_file, vex, functions, blocks, seen_blocks,
                             is_finalized, mutex, pc, frame, pending, translated>>
            /\ (get_functions_mutable(t) /\ is_finalized) =>
                 ret'.status = "Finalized" ]_vars

\* C6 witness: get_functions_mutable has failed with Finalized on a finalized
\* Translator that holds a Function with an xref.
C6_Witness ==
    /\ constructed
    /\ is_finalized
    /\ ret.op = "get_functions_mutable"
    /\ ret.status = "Finalized"
    /\ \E f \in DOMAIN functions : functions[f].xrefs # {}

\* C7: a translated Function stays in the registry as it is, and a
\* maybe_get_function or get_function of its address returns it within the
\* call, lifting nothing and leaving functions, blocks and seen_blocks alone.
C7_LookupIsStable ==
    [][ \A a \in Translated :
            /\ a \in DOMAIN functions'
            /\ functions'[a] = functions[a]
            /\ \A t \in Threads :
                (maybe_get_function(t, a) \/ get_function(t, a)) =>
                    /\ ret'.status = "ok"
                    /\ ret'.function = a
                    /\ pc' = pc
                    /\ UNCHANGED <<functions, blocks, seen_blocks, translated>> ]_vars

\* C7 witness: a lookup of Function f has returned it after another Function
\* g was translated later than f (g met its entry block already attached to f).
C7_Witness ==
    \E f \in Translated, g \in Translated :
        /\ f # g
        /\ ret.op \in {"maybe_get_function", "get_function"}
        /\ ret.status = "ok"
        /\ ret.function = f
        /\ g \in DOMAIN functions[f].blocks
        /\ g \notin DOMAIN functions[g].blocks

\* The address following the last InstructionMark of a statement sequence.
AfterLastMark(stmts) ==
    stmts[last_mark(stmts)].addr + stmts[last_mark(stmts)].len

\* C8: a Jcc terminator has a nonzero target that differs from its
\* fall_through and from the address following the last InstructionMark.
C8_JccTargetNotFallThrough ==
    \A p \in AttachedBlocks :
        LET b == functions[p[1]].blocks[p[2]]
        IN b.terminator.type = "Jcc" =>
            /\ b.terminator.target # 0
            /\ b.terminator.target # b.terminator.fall_through
            /\ last_mark(b.irsb.stmts) # 0 =>
                 b.terminator.target # AfterLastMark(b.irsb.stmts)

\* C8 witness: a Jcc block one of whose Exit statements after the last
\* InstructionMark goes to the address following that instruction.
C8_Witness ==
    \E p \in AttachedBlocks :
        LET b == functions[p[1]].blocks[p[2]]
            stmts == b.irsb.stmts
        IN /\ b.terminator.type = "Jcc"
           /\ last_mark(stmts) # 0
           /\ \E i \in (last_mark(stmts) + 1)..Len(stmts) :
                stmts[i].tag = "Exit" /\ stmts[i].dst = AfterLastMark(stmts)

\* C9 (as claimed): a Fallthrough terminator has target 0 and the address of
\* the linear successor as fall_through: the next constant of a NoDecode
\* block, last_addr + len of the last instruction of any other block.
C9_FallthroughSuccessor ==
    \A p \in AttachedBlocks :
        LET b == functions[p[1]].blocks[p[2]]
        IN b.terminator.type = "Fallthrough" =>
            /\ b.terminator.target = 0
            /\ IF b.irsb.jumpkind = "NoDecode"
               THEN /\ b.irsb.next.tag = "Const"
                    /\ b.terminator.fall_through = b.irsb.next.con
               ELSE /\ last_mark(b.irsb.stmts) # 0
                    /\ b.terminator.fall_through = AfterLastMark(b.irsb.stmts)

\* The index of the k-th InstructionMark of a statement sequence.
NthMark(stmts, k) ==
    CHOOSE i \in MarkIdx(stmts) :
        Cardinality({j \in MarkIdx(stmts) : j < i}) = k - 1

\* C10: the owned IR is the lifted IR, unless the lifter returned more than
\* instruction_count InstructionMarks; then it is the lifted statements before
\* the (instruction_count + 1)-th mark, NoDecode, with that mark's address as
\* next constant, and the block's terminator is a Fallthrough to that address.
C10_TruncationIffOverTranslated ==
    \A p \in AttachedBlocks :
        LET b == functions[p[1]].blocks[p[2]]
            lifted == translated[b.address].irsb
            count == translated[b.address].instruction_count
        IN /\ blocks[b.address] = b.irsb
           /\ IF head_instructions(lifted) >= count + 1
              THEN LET i == NthMark(lifted.stmts, count + 1)
                   IN /\ Len(b.irsb.stmts) = i - 1
                      /\ b.irsb.stmts = SubSeq(lifted.stmts, 1, i - 1)
                      /\ head_instructions(b.irsb) = count
                      /\ b.irsb.jumpkind = "NoDecode"
                      /\ b.irsb.next = Const(lifted.stmts[i].addr)
                      /\ b.terminator.type = "Fallthrough"
                      /\ b.terminator.fall_through = lifted.stmts[i].addr
              ELSE b.irsb = lifted

\* C10 witness: a truncated block whose lifted next was no constant.
C10_Witness ==
    \E p \in AttachedBlocks :
        LET b == functions[p[1]].blocks[p[2]]
            lifted == translated[b.address].irsb
        IN /\ head_instructions(lifted) = translated[b.address].instruction_count + 1
           /\ lifted.next.tag # "Const"
           /\ b.irsb.jumpkind = "NoDecode"

\* C10 witness of the other side: exactly instruction_count marks, untouched.
C10_WitnessExact ==
    \E p \in AttachedBlocks :
        LET b == functions[p[1]].blocks[p[2]]
            lifted == translated[b.address].irsb
        IN /\ head_instructions(lifted) = translated[b.address].instruction_count
           /\ b.irsb = lifted
           /\ lifted.jumpkind = "Boring"

\* The thread t has a Function under translation.
Translating(t) == pc[t] = "translate"

\* C11: an under-translated block makes process_block call itself with the
\* descriptor (real_end, block_end, instruction_count - head_instructions)
\* while the head is not attached; the head is attached when that call has
\* returned, with its IR as lifted, and the tail at real_end is attached to
\* the Function before it, provided real_end was not seen when the call was
\* made and differs from block_end.
C11_TailBeforeHead ==
    [][ \A t \in Threads :
          /\ (process_block(t) /\ Len(frame'[t].stack) > Len(frame[t].stack)) =>
                LET top == frame'[t].stack[Len(frame'[t].stack)]
                    lifted == translated'[top.block.block_start]
                IN /\ frame'[t].call =
                        <<BlockDescriptor(lifted.real_end, top.block.block_end,
                                          top.block.instruction_count
                                            - head_instructions(lifted.irsb))>>
                   /\ top.block.block_start
                        \notin DOMAIN functions'[frame[t].address].blocks
          /\ process_block_split(t) =>
                LET top == frame[t].stack[Len(frame[t].stack)]
                    head == top.block.block_start
                    lifted == translated[head]
                    f == frame[t].address
                IN /\ head \notin DOMAIN functions[f].blocks
                   /\ head \in DOMAIN functions'[f].blocks
                   /\ functions'[f].blocks[head].irsb = lifted.irsb
                   /\ (/\ lifted.real_end \notin lifted.seen_blocks \cup {head}
                       /\ lifted.real_end # top.block.block_end) =>
                         /\ lifted.real_end \in DOMAIN functions[f].blocks
                         /\ lifted.real_end \in DOMAIN functions'[f].blocks ]_vars

\* C11 witness: a Function holds an under-translated head block and the tail
\* block at its real_end, which was new when the head was lifted.
C11_Witness ==
    \E p \in AttachedBlocks :
        LET lifted == translated[p[2]]
        IN /\ head_instructions(lifted.irsb) < lifted.instruction_count
           /\ lifted.real_end \notin lifted.seen_blocks \cup {p[2]}
           /\ lifted.real_end # lifted.block_end
           /\ lifted.real_end \in DOMAIN functions[p[1]].blocks
           /\ functions[p[1]].blocks[p[2]].irsb = lifted.irsb

\* C12: every call of process_block returns, whatever the lifter answers: a
\* real_end equal to block_start, or one of an address already being
\* processed, does not make the recursion run forever.
C12_ProcessBlockTerminates ==
    \A t \in Threads :
        (Translating(t) /\ frame[t].call # << >>)
            ~> (frame[t].call = << >> /\ frame[t].stack = << >>)

\* C12 witness: a Function is complete one of whose blocks was lifted short
\* with real_end equal to its block_start.
C12_Witness ==
    \E p \in AttachedBlocks :
        LET lifted == translated[p[2]]
        IN /\ functions[p[1]].finalized
           /\ head_instructions(lifted.irsb) < lifted.instruction_count
           /\ lifted.real_end = p[2]

\* C12 witness of the other case: the recursion is asked to process the
\* address of a block that is still being processed further up the stack.
C12_WitnessBack ==
    \E t \in Threads :
        /\ Translating(t)
        /\ frame[t].call # << >>
        /\ \E i \in 1..(Len(frame[t].stack) - 1) :
             frame[t].stack[i].block.block_start = frame[t].call[1].block_start

\* C13 (as claimed): a block lifted short with real_end equal to its
\* block_start is a lift failure: the Function it was lifted for is removed
\* from the registry, so no completed Function holds such a block and no
\* lookup returns one.
C13_NoProgressIsFailure ==
    \A f \in DOMAIN functions :
        (\E a \in DOMAIN functions[f].blocks :
            /\ head_instructions(translated[a].irsb) < translated[a].instruction_count
            /\ translated[a].real_end = a)
        => /\ ~ functions[f].finalized
           /\ ~ (ret.status = "ok" /\ ret.function = f)

\* The address is neither in the registry nor in the catalog of the dump.
Unknown(address) ==
    address \notin DOMAIN functions /\ address \notin DOMAIN dump_file.functions

\* C14: get_function fails with NotFound exactly when the address is neither
\* in the registry nor in the catalog, and then changes nothing and lifts
\* nothing; otherwise it returns the Function, at once or when its
\* translation is done.  cget_function returns the Function of the registry
\* or fails with NotFound, catalog entry or not, and never changes functions,
\* blocks or seen_blocks nor calls the lifter.
C14_NotFound ==
    [][ \A t \in Threads :
          /\ \A address \in Addr :
                /\ get_function(t, address) =>
                      IF Unknown(address)
                      THEN /\ ret' = Result("get_function", address, "NotFound", 0)
                           /\ UNCHANGED <<functions, blocks, seen_blocks,
                                          translated, pc>>
                      ELSE \/ ret' = Result("get_function", address, "ok", address)
                           \/ /\ pc'[t] = "translate"
                              /\ frame'[t].address = address
                              /\ ret' = ret
                /\ cget_function(t, address) =>
                      /\ ret' = Result("cget_function", address,
                                       IF address \in DOMAIN functions
                                       THEN "ok" ELSE "NotFound",
                                       IF address \in DOMAIN functions
                                       THEN address ELSE 0)
                      /\ UNCHANGED <<functions, blocks, seen_blocks, translated, pc>>
          /\ (/\ translate_function_loop(t)
              /\ frame[t].op = "get_function"
              /\ pc'[t] = "idle") =>
                /\ ret' = Result("get_function", frame[t].address, "ok",
                                 frame[t].address)
                /\ frame[t].address \in DOMAIN functions' ]_vars

\* C14 witness: get_function has failed with NotFound for an address that is
\* in neither store, on a Translator that holds a translated Function.
C14_Witness ==
    /\ ret = Result("get_function", ret.address, "NotFound", 0)
    /\ Unknown(ret.address)
    /\ Translated # {}

\* C14 witness of the other lookup: cget_function has failed with NotFound
\* for an address the catalog has an entry for.
C14_WitnessCatalog ==
    /\ ret = Result("cget_function", ret.address, "NotFound", 0)
    /\ ret.address \in DOMAIN dump_file.functions
    /\ ret.address \notin DOMAIN functions

\* C15: after construction at most one thread at a time is inside the block
\* processing path (the lifter's translate call, the updates of seen_blocks,
\* blocks and the Function being built), and that thread holds the mutex.
C15_OneThreadLifts ==
    constructed =>
        \A t \in Threads :
            Translating(t) =>
                /\ mutex = t
                /\ \A u \in Threads : Translating(u) => u = t

\* C15 witness: a thread is between two lifter calls of an on-demand
\* translation while another thread has called finalize.
C15_Witness ==
    \E t \in Threads, u \in Threads :
        /\ constructed
        /\ t # u
        /\ Translating(t)
        /\ frame[t].stack # << >>
        /\ pc[u] = "idle"
        /\ ret.op = "finalize"

\* C16 (as claimed): no public lookup reads the registry, and no operation
\* reads or writes is_finalized, while another thread holds the mutex for an
\* on-demand translation.
C16_LookupsSerialized ==
    [][ \A t \in Threads :
          /\ \A address \in Addr :
                (\/ get_function(t, address)
                 \/ cget_function(t, address)
                 \/ maybe_get_function(t, address)
                 \/ get_containing_function(t, address)) => mutex = 0
          /\ (finalize(t) \/ get_functions_mutable(t)) => mutex = 0 ]_vars

\* C17 (as claimed): a stored terminator of type NoReturn has fall_through 0,
\* whether the classifier returned a Call or a Jump.
C17_NoReturnNoFallThrough ==
    \A p \in AttachedBlocks :
        LET b == functions[p[1]].blocks[p[2]]
        IN b.terminator.type = "NoReturn" => b.terminator.fall_through = 0

\* C18: process_block of an empty descriptor, or of a block_start that is in
\* seen_blocks, returns success without calling the lifter and leaves the
\* Functions, the blocks map and seen_blocks as they are: an empty descriptor
\* does not get its block_start into seen_blocks.
C18_SkipChangesNothing ==
    [][ \A t \in Threads :
          (/\ process_block(t)
           /\ \/ frame[t].call[1].block_start = frame[t].call[1].block_end
              \/ frame[t].call[1].block_start \in seen_blocks) =>
             /\ UNCHANGED <<functions, blocks, seen_blocks, translated>>
             /\ frame'[t].call = << >>
             /\ frame'[t].result
             /\ frame'[t].stack = frame[t].stack
             /\ frame'[t].todo = frame[t].todo ]_vars

\* C18 witness: a translation has gone past an empty descriptor of its
\* catalog entry, and the block_start of that descriptor is not in
\* seen_blocks.
C18_Witness ==
    \E t \in Threads :
        /\ Translating(t)
        /\ frame[t].call = << >>
        /\ frame[t].result
        /\ LET all == dump_file.functions[frame[t].address]
               done == Len(all) - Len(frame[t].todo)
           IN /\ done >= 1
              /\ all[done].block_start = all[done].block_end
              /\ all[done].block_start \notin seen_blocks

\* C18 witness of the other case: the recursion of an under-translated block
\* was asked for a block_start that is in seen_blocks, and has returned.
C18_WitnessSeen ==
    \E t \in Threads :
        /\ Translating(t)
        /\ frame[t].call = << >>
        /\ frame[t].stack # << >>
        /\ LET top == frame[t].stack[Len(frame[t].stack)]
           IN /\ translated[top.block.block_start].real_end
                    \in translated[top.block.block_start].seen_blocks
              /\ translated[top.block.block_start].real_end # top.block.block_end

\* The Exit statements after the last InstructionMark of a block.
LastExits(stmts) ==
    {i \in (last_mark(stmts) + 1)..Len(stmts) : stmts[i].tag = "Exit"}

\* The stored blocks of jump-kind Boring that have an InstructionMark and
\* exactly one Exit statement after the last one.
OneExitBlocks ==
    {p \in AttachedBlocks :
        LET irsb == functions[p[1]].blocks[p[2]].irsb
        IN /\ irsb.jumpkind = "Boring"
           /\ last_mark(irsb.stmts) # 0
           /\ Cardinality(LastExits(irsb.stmts)) = 1}

\* The destination of the one Exit after the last InstructionMark.
ExitDst(stmts) == stmts[CHOOSE i \in LastExits(stmts) : TRUE].dst

\* The terminator, as type, target and fall_through, of a Boring block decided
\* by its next constant c alone.
ByNextAlone(terminator, c, last_addr, fall_through) ==
    IF c = last_addr
    THEN /\ terminator.type = "Fallthrough"
         /\ terminator.target = 0
         /\ terminator.fall_through = fall_through
    ELSE IF c # 0
    THEN /\ terminator.type =
              IF c \in dump_file.non_returning THEN "NoReturn" ELSE "Jump"
         /\ terminator.target = c
         /\ terminator.fall_through = 0
    ELSE /\ terminator.type = "Unresolved"
         /\ terminator.target = 0
         /\ terminator.fall_through = 0

\* C19 (as claimed): the one Exit of a Boring block is ignored when its
\* destination d lies in (block_start, last_addr], and the terminator is then
\* not a Jcc; for every other d the terminator is a Jcc with fall_through
\* last_addr + len.
C19_ExitHeuristic ==
    \A p \in OneExitBlocks :
        LET b == functions[p[1]].blocks[p[2]]
            stmts == b.irsb.stmts
            d == ExitDst(stmts)
            last_addr == stmts[last_mark(stmts)].addr
        IN IF d > b.address /\ d <= last_addr
           THEN b.terminator.type # "Jcc"
           ELSE /\ b.terminator.type = "Jcc"
                /\ b.terminator.fall_through = AfterLastMark(stmts)

\* C19 (amended): the one Exit of a Boring block is ignored when its
\* destination d lies in (block_start, last_addr], and the terminator is then
\* decided by the next constant alone.  For any other d that is neither 0 nor
\* the fall-through address the terminator is a Jcc to d; for d the
\* fall-through address it is a Jcc to the next constant when that is neither
\* 0 nor the fall-through address; both with fall_through last_addr + len.
\* Otherwise (d = 0, or d the fall-through address and the next constant 0 or
\* the fall-through address too) the terminator is again decided by the next
\* constant alone.
C19_ExitHeuristicAmended ==
    \A p \in OneExitBlocks :
        LET b == functions[p[1]].blocks[p[2]]
            stmts == b.irsb.stmts
            d == ExitDst(stmts)
            last_addr == stmts[last_mark(stmts)].addr
            fall_through == AfterLastMark(stmts)
            c == IF b.irsb.next.tag = "Const" THEN b.irsb.next.con ELSE 0
        IN IF d > b.address /\ d <= last_addr
           THEN /\ b.terminator.type # "Jcc"
                /\ ByNextAlone(b.terminator, c, last_addr, fall_through)
           ELSE IF d \notin {0, fall_through}
           THEN /\ b.terminator.type = "Jcc"
                /\ b.terminator.target = d
                /\ b.terminator.fall_through = fall_through
           ELSE IF d = fall_through /\ c \notin {0, fall_through}
           THEN /\ b.terminator.type = "Jcc"
                /\ b.terminator.target = c
                /\ b.terminator.fall_through = fall_through
           ELSE /\ b.terminator.type # "Jcc"
                /\ ByNextAlone(b.terminator, c, last_addr, fall_through)

\* C19 witness: a stored Boring block whose one Exit goes to its own last
\* instruction, which is not its first.
C19_Witness ==
    \E p \in OneExitBlocks :
        LET b == functions[p[1]].blocks[p[2]]
            stmts == b.irsb.stmts
        IN /\ ExitDst(stmts) > b.address
           /\ ExitDst(stmts) = stmts[last_mark(stmts)].addr
           /\ b.terminator.type = "Jump"

\* C19 witness of the other side: the one Exit goes back to block_start and
\* the terminator is a Jcc.
C19_WitnessLoop ==
    \E p \in OneExitBlocks :
        LET b == functions[p[1]].blocks[p[2]]
        IN /\ ExitDst(b.irsb.stmts) = b.address
           /\ last_mark(b.irsb.stmts) > 1
           /\ b.terminator.type = "Jcc"

\* C20: when no operation is in progress, seen_blocks, the keys of the blocks
\* map and the block addresses of all Functions of the registry are one set,
\* and the blocks map holds the IR of the attached Block.
C20_StoresAgree ==
    Quiescent =>
        /\ seen_blocks = DOMAIN blocks
        /\ DOMAIN blocks = {p[2] : p \in AttachedBlocks}
        /\ \A p \in AttachedBlocks :
             /\ functions[p[1]].blocks[p[2]].address = p[2]
             /\ blocks[p[2]] = functions[p[1]].blocks[p[2]].irsb

\* C20 witness: at rest after on-demand translations, with a block that was
\* split on under-translation and a block that was truncated.
C20_Witness ==
    /\ Quiescent
    /\ ret.op \in {"get_function", "maybe_get_function"}
    /\ \E a \in seen_blocks :
         head_instructions(translated[a].irsb) < translated[a].instruction_count
    /\ \E a \in seen_blocks :
         /\ head_instructions(translated[a].irsb) > translated[a].instruction_count
         /\ blocks[a].jumpkind = "NoDecode"

====
